---- MODULE Spec2Model ----
(***************************************************************************)
(* The simulated IoT device of iot_sim (AsyncIoTResource in sim.py, the    *)
(* EventConfig overlay of model.py and the start-up check of __init__.py)  *)
(* under Spec, the polling gateway of gw.py under SpecGw and the event     *)
(* coordinator of evman.py under SpecEv.                                   *)
(*                                                                         *)
(* One device.  Time is counted in whole seconds: the transition loop      *)
(* sleeps one second per iteration, so one Tick is one second.  Numbers    *)
(* are fixed-point integers; the linear interpolation rounds down.  The    *)
(* coroutines of the device run on one asyncio loop: a step of the model   *)
(* is the code a coroutine runs between two awaits.  The sleeps of the     *)
(* transition tasks are measured in Ticks; the sleeps of the GET handlers  *)
(* (random delay, drop simulation) and of the idle drain end at any later  *)
(* step, whatever the clock says.  EventConfig objects                     *)
(* live in a heap (events) and the device's fields hold references, as in  *)
(* Python, because the transient sequence assigns to a field of an object  *)
(* that other fields may still reference.                                  *)
(***************************************************************************)
EXTENDS Integers, Sequences, FiniteSets, TLC

\* ------------------------------------------------------------------ bounds
\* POSTs that are accepted (each allocates one EventConfig and one task).
MaxPosts == 2
\* Requests admitted by a device that is not discharged (GET and POST).
MaxReq == 3

\* ------------------------------------------------------- program constants
\* self.transition_task = None, self.previous_event = None: the null reference.
\* Object and task references are 1, 2, ...
None == 0
\* the sum main() requires of the delay profile probabilities
RequiredProbability == 100
\* random.random() * 100
DropScale == 100

\* --------------------------------------------------------------- EventConfig
Fields ==
    {"event_name", "event_type", "temperature_range",
     "battery_transmit_discharge", "battery_idle_discharge",
     "drop_percentage", "delay_profiles", "coordinate",
     "transition_duration_s", "transient_event_duration_s",
     "transient_event_return_s"}

\* coordinate: dict[str, float] = {}
EmptyCoordinate == [k \in {} |-> 0]

Coordinate(lat, lon) == [latitude |-> lat, longitude |-> lon]

Profile(p, lo, hi) == [probability |-> p, min |-> lo, max |-> hi]

\* len(d) of a dict
Size(d) == Cardinality(DOMAIN d)

RECURSIVE SumProbability(_)
SumProbability(profiles) ==
    IF profiles = <<>> THEN 0
    ELSE Head(profiles).probability + SumProbability(Tail(profiles))

\* ----------------------------------------------------------- DeviceConfig
\* The configuration files the simulator may be started with.
CandidateConfigs ==
    { [uuid |-> "dev-1",
       temperature_range |-> <<20, 22>>,
       battery_charge |-> c,
       battery_transmit_discharge |-> 1,
       battery_idle_discharge |-> 1,
       drop_percentage |-> 0,
       delay_profiles |-> dp,
       coordinate |-> Coordinate(0, 0)] :
         c \in {0, 3},
         dp \in { <<Profile(100, 0, 1)>>, <<Profile(50, 0, 1)>> } }

\* main(): the device is created only when the probabilities sum to 100.
ConfigAccepted(config) ==
    SumProbability(config.delay_profiles) = RequiredProbability

\* EventConfig.from_device_config
from_device_config(config) ==
    [event_name |-> "Normal",
     event_type |-> "permanent",
     temperature_range |-> config.temperature_range,
     battery_transmit_discharge |-> config.battery_transmit_discharge,
     battery_idle_discharge |-> config.battery_idle_discharge,
     drop_percentage |-> config.drop_percentage,
     delay_profiles |-> config.delay_profiles,
     coordinate |-> config.coordinate,
     transition_duration_s |-> 0,
     transient_event_duration_s |-> 0,
     transient_event_return_s |-> 0]

\* ------------------------------------------------------------- POST bodies
\* A JSON object is a function from the keys it gives to their values.
BodyHot ==
    [k \in {"event_name", "event_type", "temperature_range",
            "transition_duration_s"} |->
       CASE k = "event_name" -> "Hot"
         [] k = "event_type" -> "permanent"
         [] k = "temperature_range" -> <<80, 82>>
         [] k = "transition_duration_s" -> 2]

BodySpike ==
    [k \in {"event_name", "event_type", "temperature_range", "coordinate",
            "transition_duration_s", "transient_event_duration_s",
            "transient_event_return_s"} |->
       CASE k = "event_name" -> "Spike"
         [] k = "event_type" -> "transient"
         [] k = "temperature_range" -> <<100, 100>>
         [] k = "coordinate" -> Coordinate(4, 8)
         [] k = "transition_duration_s" -> 1
         [] k = "transient_event_duration_s" -> 1
         [] k = "transient_event_return_s" -> 2]

\* No name, no type, no duration: all three are inherited.
BodyCharge ==
    [k \in {"battery_transmit_discharge", "battery_idle_discharge",
            "coordinate"} |->
       CASE k = "battery_transmit_discharge" -> 0 - 1
         [] k = "battery_idle_discharge" -> 3
         [] k = "coordinate" -> EmptyCoordinate]

BodySkew ==
    [k \in {"event_name", "event_type", "drop_percentage", "delay_profiles",
            "coordinate", "transition_duration_s"} |->
       CASE k = "event_name" -> "Skew"
         [] k = "event_type" -> "permanent"
         [] k = "drop_percentage" -> 100
         [] k = "delay_profiles" -> <<Profile(50, 1, 1)>>
         [] k = "coordinate" -> Coordinate(2, 2)
         [] k = "transition_duration_s" -> 2]

\* A JSON object whose temperature_range has one item: the overlay fails
\* the validation of tuple[float, float].
BodyInvalid ==
    [k \in {"event_name", "temperature_range"} |->
       CASE k = "event_name" -> "Broken"
         [] k = "temperature_range" -> <<5>>]

JsonBodies == {BodyHot, BodySpike, BodyCharge, BodySkew, BodyInvalid}

\* A payload is a JSON object or bytes that json.loads rejects.
NotJson == [k \in {"not json"} |-> "{"]

Payloads == JsonBodies \cup {NotJson}

\* A json.loads that takes any bytes for a JSON object.
JSONDecodeErrorNever(payload) == FALSE

\* json.loads(request.payload.decode("utf-8")) raises JSONDecodeError
JSONDecodeError(payload) == payload = NotJson

\* data.get(key, default)
Get(data, key, default) == IF key \in DOMAIN data THEN data[key] ELSE default

\* An overlay that takes the class defaults of EventConfig for event_type and
\* the durations instead of the old event's values.
from_incomplete_dict_defaults(data, old) ==
    [event_name |-> Get(data, "event_name", old.event_name),
     event_type |-> Get(data, "event_type", "permanent"),
     temperature_range |-> Get(data, "temperature_range", old.temperature_range),
     battery_transmit_discharge |->
         Get(data, "battery_transmit_discharge", old.battery_transmit_discharge),
     battery_idle_discharge |->
         Get(data, "battery_idle_discharge", old.battery_idle_discharge),
     drop_percentage |-> Get(data, "drop_percentage", old.drop_percentage),
     delay_profiles |-> Get(data, "delay_profiles", old.delay_profiles),
     coordinate |-> Get(data, "coordinate", old.coordinate),
     transition_duration_s |-> Get(data, "transition_duration_s", 0),
     transient_event_duration_s |-> Get(data, "transient_event_duration_s", 0),
     transient_event_return_s |-> Get(data, "transient_event_return_s", 0)]

\* EventConfig.from_incomplete_dict, before validation
from_incomplete_dict(data, old) ==
    [event_name |-> Get(data, "event_name", old.event_name),
     event_type |-> Get(data, "event_type", old.event_type),
     temperature_range |-> Get(data, "temperature_range", old.temperature_range),
     battery_transmit_discharge |->
         Get(data, "battery_transmit_discharge", old.battery_transmit_discharge),
     battery_idle_discharge |->
         Get(data, "battery_idle_discharge", old.battery_idle_discharge),
     drop_percentage |-> Get(data, "drop_percentage", old.drop_percentage),
     delay_profiles |-> Get(data, "delay_profiles", old.delay_profiles),
     coordinate |-> Get(data, "coordinate", old.coordinate),
     transition_duration_s |->
         Get(data, "transition_duration_s", old.transition_duration_s),
     transient_event_duration_s |->
         Get(data, "transient_event_duration_s", old.transient_event_duration_s),
     transient_event_return_s |->
         Get(data, "transient_event_return_s", old.transient_event_return_s)]

\* pydantic's validation of the EventConfig fields, as far as the payloads
\* above can fail it: temperature_range must be a pair.
ValidationError(data, old) ==
    Len(Get(data, "temperature_range", old.temperature_range)) # 2

\* ------------------------------------------------------------------- state
VARIABLES
    device_config,
    current_temp_min, current_temp_max,
    current_drop_percentage,
    current_battery_charge,
    current_battery_transmit_discharge,
    current_battery_idle_discharge,
    current_coordinate,
    delay_weights, delay_ranges,
    events,            \* the heap of EventConfig objects, by reference
    current_event,     \* a reference into events
    target_event,      \* a reference into events, None before the first POST
    previous_event,    \* a reference into events, or None
    transition_task,   \* a reference into tasks, or None
    discharged,
    tasks,             \* the transition tasks ever created, by reference
    idle_pc,           \* where _battery_idle_drain_task is
    dropping,          \* GET handlers in the sleep of the drop simulation
    delaying,          \* GET handlers in the sleep of the random delay
    response,          \* the last response sent
    nreq               \* requests admitted so far

\* The gateway (gw.py), see below.
VARIABLES
    network,           \* what a GET to each URI meets
    mqtt,              \* what a publish to the broker meets
    interval_ms,       \* -i / --interval, in milliseconds
    rtt,               \* ticks a device that answers takes to answer
    now,               \* ticks since the gateway started
    poll,              \* the polling task of each URI, with its locals
    queue,             \* csv_logger.queue
    csvfile,           \* the rows written to the CSV file, after the header
    flush_left,        \* ticks to the next periodic flush
    publishing,        \* the publish tasks created and not yet run
    published,         \* the bodies handed to mqtt_client.publish
    main,              \* where main() is, and the exception it unwinds with
    csv_logger_task    \* where AsyncCSVLogger.start is

\* The event coordinator (evman.py), see below.
VARIABLES
    schedule_file,     \* the entries of the schedule file, in file order
    schedule,          \* EventCoordinator.schedule
    run_pc,            \* where main() and EventCoordinator.run are
    run_tasks,         \* the tasks of run(), one per entry of schedule
    loop_time,         \* milliseconds since run() took start_time
    posts              \* the POSTs sent, in the order of sending

profile ==
    <<current_temp_min, current_temp_max, current_drop_percentage,
      current_battery_transmit_discharge, current_battery_idle_discharge,
      current_coordinate, delay_weights, delay_ranges>>

\* The live fields other than the active delay profile list.
live_fields ==
    <<current_temp_min, current_temp_max, current_drop_percentage,
      current_battery_transmit_discharge, current_battery_idle_discharge,
      current_coordinate>>

battery == <<current_battery_charge, discharged>>

refs == <<events, current_event, target_event, previous_event, transition_task>>

gets == <<dropping, delaying>>

device ==
    <<device_config, profile, battery, refs, tasks, idle_pc, gets, response, nreq>>

gateway ==
    <<network, mqtt, interval_ms, rtt, now, poll, queue, csvfile, flush_left,
      publishing, published, main, csv_logger_task>>

coordinator == <<schedule_file, schedule, run_pc, run_tasks, loop_time, posts>>

vars == <<device, gateway, coordinator>>

\* ------------------------------------------------------------ small helpers
Max(a, b) == IF a >= b THEN a ELSE b

\* _set_delay_profiles
Weights(profiles) == [j \in DOMAIN profiles |-> profiles[j].probability]

Ranges(profiles) == [j \in DOMAIN profiles |-> <<profiles[j].min, profiles[j].max>>]

\* A discharge by the transmit rate of the DeviceConfig, whatever the value.
ChargeAfterStatic(charge, value) ==
    IF charge - device_config.battery_transmit_discharge <= 0 THEN 0
    ELSE charge - device_config.battery_transmit_discharge

\* _discharge_battery: the charge after discharging by value
ChargeAfter(charge, value) ==
    IF charge - value <= 0 THEN 0 ELSE charge - value

\* A _discharge_battery that clamps the charge and forgets the flag.
DischargedAfterForgotten(charge, value, was) == was

\* A _discharge_battery that sets the flag only below 0.
DischargedAfterBelow(charge, value, was) ==
    IF charge - value < 0 THEN TRUE ELSE was

\* _discharge_battery: discharged after discharging by value
DischargedAfter(charge, value, was) ==
    IF charge - value <= 0 THEN TRUE ELSE was

\* ----------------------------------------------------------- responses
NoResponse == [method |-> "none", code |-> "none", payload |-> [message |-> ""]]

NotFound(method, message) ==
    [method |-> method, code |-> "4.04 Not Found", payload |-> [message |-> message]]

BadRequest(message) ==
    [method |-> "POST", code |-> "4.00 Bad Request", payload |-> [message |-> message]]

Created(ev) ==
    [method |-> "POST", code |-> "2.01 Created",
     payload |-> [status |-> "Event triggered",
                  event |-> ev.event_name,
                  transition |-> ev.transition_duration_s,
                  event_type |-> ev.event_type]]

\* A render_get that tests the charge again when it builds the reply.
ContentUnlessEmpty(u, charge) ==
    IF charge = 0
    THEN NotFound("GET", "Battery discharged. Device cannot process requests.")
    ELSE [method |-> "GET", code |-> "2.05 Content",
          payload |-> [uuid |-> device_config.uuid,
                       status |-> events[current_event].event_name,
                       temperature |->
                           current_temp_min
                               + (current_temp_max - current_temp_min) * u,
                       battery |-> charge,
                       coordinate |-> current_coordinate]]

\* A reply built from the values the device was started with.
ContentStale(u, charge) ==
    [method |-> "GET", code |-> "2.05 Content",
     payload |-> [uuid |-> device_config.uuid,
                  status |-> "Normal",
                  temperature |->
                      device_config.temperature_range[1]
                          + (device_config.temperature_range[2]
                                 - device_config.temperature_range[1]) * u,
                  battery |-> device_config.battery_charge,
                  coordinate |-> device_config.coordinate]]

\* The CoAPReply of render_get; u is the draw of random.uniform and charge
\* is self.current_battery_charge when the reply is built.
Content(u, charge) ==
    [method |-> "GET", code |-> "2.05 Content",
     payload |-> [uuid |-> device_config.uuid,
                  status |-> events[current_event].event_name,
                  temperature |->
                      current_temp_min + (current_temp_max - current_temp_min) * u,
                  battery |-> charge,
                  coordinate |-> current_coordinate]]

\* ------------------------------------------------------- transition tasks
Alive == {"new", "leg1", "hold", "leg2"}

Sleeping == {"leg1", "hold", "leg2"}

NoLocals == <<>>

\* A task that has ended keeps only how it ended.
Ended(t, how) ==
    [kind |-> t.kind, base |-> t.base, given |-> t.given, pc |-> how, arg |-> 0,
     duration |-> 0, elapsed |-> 0, sleep_left |-> 0, start |-> NoLocals,
     target |-> NoLocals]

\* loop.create_task(...): the coroutine has not run yet.  For a permanent
\* event the duration is evaluated by render_post, when the coroutine object
\* is made.  base records the reference self.current_event held when the
\* POST was handled (the overlay's old event) and given the keys of the POST
\* body; no statement reads them back.
NewTask(ev, base, given) ==
    [kind |-> IF ev.event_type = "transient" THEN "transient" ELSE "permanent",
     base |-> base,
     given |-> given,
     pc |-> "new",
     arg |-> ev.transition_duration_s,
     duration |-> 0, elapsed |-> 0, sleep_left |-> 0,
     start |-> NoLocals, target |-> NoLocals]

\* task.cancel(): CancelledError is raised at the await the task is in (or
\* before its first statement); nothing catches it.
Cancel(t) == IF t.pc \in Alive THEN Ended(t, "cancelled") ELSE t

\* _apply_gradual_transition: the start values
StartValues ==
    [temp_min |-> current_temp_min,
     temp_max |-> current_temp_max,
     battery_transmit_discharge |-> current_battery_transmit_discharge,
     battery_idle_discharge |-> current_battery_idle_discharge,
     drop_percentage |-> current_drop_percentage,
     coordinate |-> current_coordinate]

\* Target values that are the fields of the current event.
TargetValuesKept(tgt, cur) ==
    [temp_min |-> cur.temperature_range[1],
     temp_max |-> cur.temperature_range[2],
     drop_percentage |-> cur.drop_percentage,
     delay_profiles |-> cur.delay_profiles,
     battery_transmit_discharge |-> cur.battery_transmit_discharge,
     battery_idle_discharge |-> cur.battery_idle_discharge,
     coordinate |-> current_coordinate]

\* _apply_gradual_transition: the target values.  tgt is self.target_event
\* and cur is self.current_event, both as objects.  A validated EventConfig
\* has no None field, so the "is not None" tests always hold.
TargetValues(tgt, cur) ==
    [temp_min |-> tgt.temperature_range[1],
     temp_max |-> tgt.temperature_range[2],
     drop_percentage |-> tgt.drop_percentage,
     delay_profiles |->
         IF Len(tgt.delay_profiles) > 0 THEN tgt.delay_profiles
         ELSE cur.delay_profiles,
     battery_transmit_discharge |-> tgt.battery_transmit_discharge,
     battery_idle_discharge |-> tgt.battery_idle_discharge,
     coordinate |->
         IF Size(tgt.coordinate) > 0 THEN tgt.coordinate
         ELSE current_coordinate]

\* An interpolation that adds the increment to the target value.
LerpFromTarget(start, target, elapsed, duration) ==
    target + ((target - start) * elapsed) \div duration

\* start + (target - start) * progress, progress = min(1.0, elapsed / duration)
Lerp(start, target, elapsed, duration) ==
    start + ((target - start) * elapsed) \div duration

\* progress >= 0.5
HalfWay(elapsed, duration) == 2 * elapsed >= duration

\* while time.time() - start_time < transition_duration_s
InLoop(t) == t.elapsed < t.duration

\* The body of the while loop of _apply_gradual_transition for task i, from
\* the loop test to the next await, or, when the loop is over, the statements
\* after the loop and what the caller runs up to its next await.  t is the
\* task with its locals, tgt is self.target_event and evs the heap as the
\* statements before left them, ts the tasks.
RunLoop(i, t, tgt, evs, ts) ==
    IF InLoop(t)
    THEN /\ current_temp_min' =
                Lerp(t.start.temp_min, t.target.temp_min, t.elapsed, t.duration)
         /\ current_temp_max' =
                Lerp(t.start.temp_max, t.target.temp_max, t.elapsed, t.duration)
         /\ current_drop_percentage' =
                Lerp(t.start.drop_percentage, t.target.drop_percentage,
                     t.elapsed, t.duration)
         /\ current_battery_transmit_discharge' =
                Lerp(t.start.battery_transmit_discharge,
                     t.target.battery_transmit_discharge, t.elapsed, t.duration)
         /\ current_battery_idle_discharge' =
                Lerp(t.start.battery_idle_discharge,
                     t.target.battery_idle_discharge, t.elapsed, t.duration)
         /\ current_coordinate' =
                Coordinate(
                    Lerp(t.start.coordinate["latitude"],
                         t.target.coordinate["latitude"], t.elapsed, t.duration),
                    Lerp(t.start.coordinate["longitude"],
                         t.target.coordinate["longitude"], t.elapsed, t.duration))
         /\ IF HalfWay(t.elapsed, t.duration)
            THEN /\ delay_weights' = Weights(t.target.delay_profiles)
                 /\ delay_ranges' = Ranges(t.target.delay_profiles)
            ELSE UNCHANGED <<delay_weights, delay_ranges>>
         \* await asyncio.sleep(1)
         /\ tasks' = [ts EXCEPT ![i] = [t EXCEPT !.sleep_left = 1]]
         /\ UNCHANGED <<current_event, transition_task>>
    ELSE \* Ensure final state is exactly the target state
         /\ current_event' = tgt
         /\ current_temp_min' = t.target.temp_min
         /\ current_temp_max' = t.target.temp_max
         /\ current_battery_transmit_discharge' = t.target.battery_transmit_discharge
         /\ current_battery_idle_discharge' = t.target.battery_idle_discharge
         /\ current_drop_percentage' = t.target.drop_percentage
         /\ current_coordinate' = t.target.coordinate
         /\ delay_weights' = Weights(t.target.delay_profiles)
         /\ delay_ranges' = Ranges(t.target.delay_profiles)
         /\ transition_task' = None
         /\ IF t.kind = "transient" /\ t.pc = "leg1"
            THEN \* await asyncio.sleep(self.current_event.transient_event_duration_s)
                 tasks' = [ts EXCEPT ![i] =
                     [t EXCEPT !.pc = "hold", !.duration = 0, !.elapsed = 0,
                               !.start = NoLocals, !.target = NoLocals,
                               !.sleep_left =
                                   Max(0, evs[tgt].transient_event_duration_s)]]
            ELSE \* the coroutine returns (the transient sequence sets
                 \* transition_task = None once more)
                 tasks' = [ts EXCEPT ![i] = Ended(t, "done")]

\* The first step of a transition task: _transient_event_sequence up to the
\* first await of its first leg, or _apply_gradual_transition up to its first
\* await.
TaskStart(i) ==
    /\ i \in DOMAIN tasks
    /\ tasks[i].pc = "new"
    /\ LET t == tasks[i]
           duration ==
               IF t.kind = "transient"
               THEN events[target_event].transition_duration_s
               ELSE t.arg
           entered ==
               [t EXCEPT !.pc = "leg1", !.duration = duration, !.elapsed = 0,
                         !.start = StartValues,
                         !.target = TargetValues(events[target_event],
                                                 events[current_event])]
       IN  /\ previous_event' =
                  IF t.kind = "transient" THEN current_event ELSE previous_event
           /\ RunLoop(i, entered, target_event, events, tasks)
    /\ UNCHANGED <<device_config, battery, events, target_event, idle_pc, gets,
                   response, nreq>>
    /\ UNCHANGED <<gateway, coordinator>>

\* A task wakes from the asyncio.sleep(1) of the transition loop.
LegWake(i) ==
    /\ i \in DOMAIN tasks
    /\ tasks[i].pc \in {"leg1", "leg2"}
    /\ tasks[i].sleep_left = 0
    /\ RunLoop(i, tasks[i], target_event, events, tasks)
    /\ UNCHANGED <<device_config, battery, events, target_event, previous_event,
                   idle_pc, gets, response, nreq>>
    /\ UNCHANGED <<gateway, coordinator>>

\* _transient_event_sequence wakes from the hold and starts the return leg.
HoldWake(i) ==
    /\ i \in DOMAIN tasks
    /\ tasks[i].pc = "hold"
    /\ tasks[i].sleep_left = 0
    /\ IF previous_event = None
       THEN \* self.previous_event.coordinate = ... raises AttributeError
            /\ tasks' = [tasks EXCEPT ![i] = Ended(tasks[i], "failed")]
            /\ UNCHANGED <<profile, refs>>
       ELSE \* Coordinates are never transient.  An EventConfig object is
            \* truthy, so "if self.previous_event:" is always taken.
            LET evs == [events EXCEPT ![previous_event].coordinate =
                                          current_coordinate]
                tgt == previous_event
                entered ==
                    [tasks[i] EXCEPT
                        !.pc = "leg2",
                        !.duration = evs[current_event].transient_event_return_s,
                        !.elapsed = 0,
                        !.start = StartValues,
                        !.target = TargetValues(evs[tgt], evs[current_event])]
            IN  /\ events' = evs
                /\ previous_event' = None
                /\ target_event' = tgt
                /\ RunLoop(i, entered, tgt, evs, tasks)
    /\ UNCHANGED <<device_config, battery, idle_pc, gets, response, nreq>>
    /\ UNCHANGED <<gateway, coordinator>>

\* One second passes.  A task that is due runs before the clock moves on.
Due(t) == t.pc = "new" \/ (t.pc \in Sleeping /\ t.sleep_left = 0)

Tick ==
    /\ \E i \in DOMAIN tasks : tasks[i].pc \in Sleeping
    /\ \A i \in DOMAIN tasks : ~Due(tasks[i])
    /\ tasks' =
          [i \in DOMAIN tasks |->
              IF tasks[i].pc \in Sleeping
              THEN [tasks[i] EXCEPT
                       !.sleep_left = @ - 1,
                       !.elapsed = IF tasks[i].pc = "hold" THEN @ ELSE @ + 1]
              ELSE tasks[i]]
    /\ UNCHANGED <<device_config, profile, battery, refs, idle_pc, gets,
                   response, nreq>>
    /\ UNCHANGED <<gateway, coordinator>>

\* An idle drain by the live, interpolated rate.
IdleDischargeLive == current_battery_idle_discharge

\* self.device_config.battery_idle_discharge
IdleDischarge == device_config.battery_idle_discharge

\* _battery_idle_drain_task wakes from asyncio.sleep(60).
IdleDrain ==
    /\ idle_pc = "sleep"
    /\ LET charge == current_battery_charge - IdleDischarge
       IN  /\ current_battery_charge' = IF charge <= 0 THEN 0 ELSE charge
           /\ discharged' = IF charge <= 0 THEN TRUE ELSE discharged
           /\ idle_pc' = IF charge > 0 THEN "sleep" ELSE "exit"
    /\ UNCHANGED <<device_config, profile, refs, tasks, gets, response, nreq>>
    /\ UNCHANGED <<gateway, coordinator>>

\* render_post
render_post(payload) ==
    /\ IF discharged
       THEN /\ response' =
                   NotFound("POST", "Battery discharged. Device cannot process requests.")
            /\ UNCHANGED <<device_config, profile, battery, refs, tasks, idle_pc,
                           gets, nreq>>
       ELSE /\ nreq < MaxReq
            /\ nreq' = nreq + 1
            /\ current_battery_charge' =
                   ChargeAfter(current_battery_charge,
                               current_battery_transmit_discharge)
            /\ discharged' =
                   DischargedAfter(current_battery_charge,
                                   current_battery_transmit_discharge, discharged)
            /\ IF JSONDecodeError(payload)
               THEN /\ response' = BadRequest("Invalid JSON payload.")
                    /\ UNCHANGED <<refs, tasks>>
               ELSE IF ValidationError(payload, events[current_event])
               THEN /\ response' = BadRequest("Event Config validation error")
                    /\ UNCHANGED <<refs, tasks>>
               ELSE LET ev == from_incomplete_dict(payload, events[current_event])
                        \* Stop any existing transition task
                        stopped ==
                            IF transition_task # None
                            THEN [tasks EXCEPT ![transition_task] = Cancel(@)]
                            ELSE tasks
                    IN  /\ Len(tasks) < MaxPosts
                        /\ events' = Append(events, ev)
                        /\ target_event' = Len(events) + 1
                        /\ tasks' = Append(stopped,
                                       NewTask(ev, current_event, DOMAIN payload))
                        /\ transition_task' = Len(tasks) + 1
                        /\ response' = Created(ev)
                        /\ UNCHANGED <<current_event, previous_event>>
            /\ UNCHANGED <<device_config, profile, idle_pc, gets>>
    /\ UNCHANGED <<gateway, coordinator>>

\* The draws of random.random() * 100 the model takes: the least and the
\* greatest.
DropDraws == {0, DropScale - 1}

\* The draws of random.uniform(a, b) = a + (b - a) * random.random().
UniformDraws == {0, 1}

\* A drop test that also drops the draw equal to the percentage.
DroppedInclusive(r) == r <= current_drop_percentage

\* random.random() * 100 < self.current_drop_percentage
Dropped(r) == r < current_drop_percentage

\* A selection that takes the drawn profile out of the active list.
select_delay_profile_consumed(j) ==
    /\ delay_weights[j] > 0
    /\ delay_weights' = [delay_weights EXCEPT ![j] = 0]
    /\ UNCHANGED delay_ranges

\* _select_delay_profile: random.choices draws the range of a profile of
\* positive weight; the lists are read, not assigned.
select_delay_profile(j) ==
    /\ delay_weights[j] > 0
    /\ UNCHANGED <<delay_weights, delay_ranges>>

\* render_get up to its first await, or to its end when it does not await
render_get ==
    /\ IF discharged
       THEN /\ response' =
                   NotFound("GET", "Battery discharged. Device cannot process requests.")
            /\ UNCHANGED <<device_config, profile, battery, refs, tasks, idle_pc,
                           gets, nreq>>
       ELSE /\ nreq < MaxReq
            /\ nreq' = nreq + 1
            /\ \E r \in DropDraws :
                 IF Dropped(r)
                 THEN \* await asyncio.sleep(20)
                      /\ dropping' = dropping + 1
                      /\ UNCHANGED <<battery, delaying, response>>
                      /\ UNCHANGED <<delay_weights, delay_ranges>>
                 ELSE /\ current_battery_charge' =
                             ChargeAfter(current_battery_charge,
                                         current_battery_transmit_discharge)
                      /\ discharged' =
                             DischargedAfter(current_battery_charge,
                                             current_battery_transmit_discharge,
                                             discharged)
                      /\ \E j \in DOMAIN delay_ranges, u \in UniformDraws :
                           /\ select_delay_profile(j)
                           /\ LET delay == delay_ranges[j][1] +
                                      (delay_ranges[j][2] - delay_ranges[j][1]) * u
                              IN  IF delay > 0
                                  THEN \* await asyncio.sleep(delay)
                                       /\ delaying' = delaying + 1
                                       /\ UNCHANGED <<dropping, response>>
                                  ELSE /\ \E v \in UniformDraws :
                                             response' =
                                                 Content(v, current_battery_charge')
                                       /\ UNCHANGED gets
            /\ UNCHANGED <<device_config, live_fields, refs, tasks, idle_pc>>
    /\ UNCHANGED <<gateway, coordinator>>

\* render_get after the sleep of the random delay: the reply
render_get_reply ==
    /\ delaying > 0
    /\ delaying' = delaying - 1
    /\ \E v \in UniformDraws : response' = Content(v, current_battery_charge)
    /\ UNCHANGED <<device_config, profile, battery, refs, tasks, idle_pc,
                   dropping, nreq>>
    /\ UNCHANGED <<gateway, coordinator>>

\* render_get after the sleep of the drop simulation
render_get_dropped ==
    /\ dropping > 0
    /\ dropping' = dropping - 1
    /\ response' = NotFound("GET", "Simulated drop leads to client timeout/failure.")
    /\ UNCHANGED <<device_config, profile, battery, refs, tasks, idle_pc,
                   delaying, nreq>>
    /\ UNCHANGED <<gateway, coordinator>>

\* --------------------------------------------------------- specification
\* AsyncIoTResource.__init__, for a configuration main() accepts
DeviceInit ==
    /\ device_config \in {c \in CandidateConfigs : ConfigAccepted(c)}
    /\ current_temp_min = device_config.temperature_range[1]
    /\ current_temp_max = device_config.temperature_range[2]
    /\ current_drop_percentage = device_config.drop_percentage
    /\ current_battery_charge = device_config.battery_charge
    /\ current_battery_transmit_discharge = device_config.battery_transmit_discharge
    /\ current_battery_idle_discharge = device_config.battery_idle_discharge
    /\ delay_weights = Weights(device_config.delay_profiles)
    /\ delay_ranges = Ranges(device_config.delay_profiles)
    /\ current_coordinate = device_config.coordinate
    /\ events = <<from_device_config(device_config)>>
    /\ current_event = 1
    /\ target_event = None
    /\ previous_event = None
    /\ transition_task = None
    /\ discharged = (device_config.battery_charge <= 0)
    /\ tasks = <<>>
    /\ idle_pc = IF device_config.battery_charge > 0 THEN "sleep" ELSE "exit"
    /\ dropping = 0
    /\ delaying = 0
    /\ response = NoResponse
    /\ nreq = 0

\* No gateway runs beside the device.
GatewayNotStarted ==
    /\ network = <<>>
    /\ mqtt = "none"
    /\ interval_ms = 0
    /\ rtt = 0
    /\ now = 0
    /\ poll = <<>>
    /\ queue = <<>>
    /\ csvfile = <<>>
    /\ flush_left = 0
    /\ publishing = <<>>
    /\ published = <<>>
    /\ main = [pc |-> "none", exc |-> "none"]
    /\ csv_logger_task = "none"

\* No coordinator runs beside the device.
CoordinatorNotStarted ==
    /\ schedule_file = <<>>
    /\ schedule = <<>>
    /\ run_pc = "none"
    /\ run_tasks = <<>>
    /\ loop_time = 0
    /\ posts = <<>>

Init == DeviceInit /\ GatewayNotStarted /\ CoordinatorNotStarted

Next ==
    \/ \E payload \in Payloads : render_post(payload)
    \/ render_get
    \/ render_get_reply
    \/ render_get_dropped
    \/ \E i \in DOMAIN tasks : TaskStart(i)
    \/ \E i \in DOMAIN tasks : LegWake(i)
    \/ \E i \in DOMAIN tasks : HoldWake(i)
    \/ Tick
    \/ IdleDrain

Spec == Init /\ [][Next]_vars

\* ------------------------------------------------------------ the gateway
\* gw.py: one polling task per device URI, the CSV logger and the publish
\* tasks, on one asyncio loop.  The devices are seen through the outcomes of
\* the GETs.  Time is counted in whole ticks since the gateway started; the
\* wall clock and the loop clock both read now.

\* the devices of the device-list file
URIs == {"coap://a/device/data", "coap://b/device/data"}

\* -i / --interval, in milliseconds: an interval longer than the timeout of
\* its GETs, and one shorter than the least timeout of half a second.
Intervals == {10000, 400}

\* The clock of the gateway counts ticks: a tick is a second when the
\* interval is a second or more, a tenth of a second when it is less.
tick_ms == IF interval_ms >= 1000 THEN 1000 ELSE 100

\* CSV_FLUSH_INTERVAL, in seconds
CSV_FLUSH_INTERVAL == 30

\* CSV_FLUSH_INTERVAL, in ticks
FlushInterval == (CSV_FLUSH_INTERVAL * 1000) \div tick_ms

\* Polling intervals the clock runs for.
MaxIntervals == 4

\* interval_ms / 1000, in ticks
Interval == interval_ms \div tick_ms

\* timeout = max((interval_ms / 1000) * 0.9, 0.5), in ticks
timeout == Max((interval_ms * 9) \div 10, 500) \div tick_ms

Horizon == MaxIntervals * Interval

\* random.uniform(0, args.interval / 1000): the least and the greatest whole
\* tick
InitialDelays == {0, Interval - 1}

\* How long a device that answers takes: a tick, or just within the timeout.
Latencies == {1, timeout - 1}

\* What the GETs to a URI meet: "up", each is answered with a reply; "down",
\* none is (the URI is unreachable); "flaky", any of them may fail or be
\* answered with a response that is neither a reply nor a 4.04.
Networks ==
    { [u \in URIs |-> IF u = "coap://a/device/data" THEN "up" ELSE "down"],
      [u \in URIs |-> IF u = "coap://a/device/data" THEN "flaky" ELSE "up"] }

\* What mqtt_client.publish meets: "up", the broker takes the message;
\* "raises", the publish raises (MqttError, or RuntimeError when the client is
\* not connected); "stalled", the await of the publish does not return.
Brokers == {"up", "raises", "stalled"}

\* The ways a GET to u can end: with the payload of a reply after the
\* device's latency, with nothing (a 4.04 or a transport error after a
\* tick, or the timeout), or with the payload of a response of another code,
\* which send_coap_get returns like that of a reply.
Outcomes(u) ==
    LET answered == {[payload |-> "reply", latency |-> rtt]}
        failed == {[payload |-> "none", latency |-> 1],
                   [payload |-> "none", latency |-> timeout]}
        other == {[payload |-> "diagnostic", latency |-> rtt]}
    IN  CASE network[u] = "up" -> answered
          [] network[u] = "down" -> failed
          [] network[u] = "flaky" -> answered \cup failed \cup other

\* CoAPReply
ReplyFields ==
    {"uuid", "timestamp", "status", "temperature", "battery", "coordinate"}

\* The JSON a device at u answers with at second t: it cools, drains and moves.
DeviceReply(u, t) ==
    [uuid |-> IF u = "coap://a/device/data" THEN "dev-a" ELSE "dev-b",
     timestamp |-> t,
     status |-> "Normal",
     temperature |-> 90 - t,
     battery |-> 100 - t,
     coordinate |-> Coordinate(t, 2 * t)]

\* The payload of a response that is not a reply, such as the diagnostic text
\* of a 5.00: it has none of the fields of a CoAPReply.
Diagnostic == [message |-> "Internal Server Error"]

\* CoAPReply.from_json raises for a payload that is not the JSON of a
\* CoAPReply.
from_json_raises(payload) == ~(ReplyFields \subseteq DOMAIN payload)

\* CoAPReply.from_json: the object of the six fields of the JSON payload
from_json(payload) == [f \in ReplyFields |-> payload[f]]

\* A reply variable is None (no element) or holds one CoAPReply.
NoReply == <<>>

\* An error reply that keeps the temperature and the battery of the last
\* reply.
ErrorReplyStale(reply, t) ==
    [reply EXCEPT
        !.status = "ERROR: timeout or empty payload. Battery and temperature set to 0",
        !.timestamp = t]

\* periodic_request_and_publish: the cached reply turned into an error reply
ErrorReply(reply, t) ==
    [reply EXCEPT
        !.status = "ERROR: timeout or empty payload. Battery and temperature set to 0",
        !.timestamp = t,
        !.temperature = 0,
        !.battery = 0]

\* periodic_request_and_publish: log_data
log_data(reply, message_id, sent_time, receipt_time, uri, error) ==
    [uuid |-> reply.uuid,
     message_id |-> message_id,
     sent_time |-> sent_time,
     receipt_time |-> receipt_time,
     timestamp |-> reply.timestamp,
     uri |-> uri,
     longitude |-> Get(reply.coordinate, "longitude", 0),
     latitude |-> Get(reply.coordinate, "latitude", 0),
     temperature |-> reply.temperature,
     battery |-> reply.battery,
     error |-> error]

\* A sleep that lasts the whole interval, whatever the GET took.
SleepTimeWhole(elapsed) == Interval

\* A sleep of the distance between the interval and the time the GET took.
SleepTimeDistance(elapsed) ==
    IF elapsed > Interval THEN elapsed - Interval ELSE Interval - elapsed

\* sleep_time = (interval_ms / 1000) - elapsed
SleepTime(elapsed) == Interval - elapsed

\* A counter that also counts the ticks that emit no row.
NextMessageIdAlways(message_id, emitted) == message_id + 1

\* message_id += 1, inside "if reply is not None"
NextMessageId(message_id, emitted) ==
    IF emitted THEN message_id + 1 ELSE message_id

\* asyncio.create_task(periodic_request_and_publish(...)): the coroutine has
\* not run yet
NewPoll(initial_delay) ==
    [pc |-> "new", initial_delay |-> initial_delay, sleep_left |-> 0,
     reply |-> NoReply, message_id |-> 0, start_time |-> 0, sent_time |-> 0,
     pending |-> "none"]

\* The head of the while loop, up to the await of send_coap_get; o is how the
\* GET will end.
StartGet(p, o) ==
    [p EXCEPT !.pc = "get", !.start_time = now, !.sent_time = now,
              !.pending = o.payload, !.sleep_left = o.latency]

\* reply = None, message_id = 1: the locals the task sets before its loop
EnterLoop(p) == [p EXCEPT !.reply = NoReply, !.message_id = 1]

\* A polling task that awaits the publish tasks it created before it goes on.
awaited_all(created) == created

\* asyncio.create_task(publish_task()): the publish tasks the polling task
\* awaits before it goes on.  The task is created and not awaited: none.
awaited(created) == <<>>

\* The first step of a polling task: into the initial delay or, when there is
\* none, straight into the loop.
PollStart(u) ==
    /\ u \in DOMAIN poll
    /\ poll[u].pc = "new"
    /\ IF poll[u].initial_delay > 0
       THEN poll' = [poll EXCEPT ![u] =
                        [@ EXCEPT !.pc = "delay",
                                  !.sleep_left = poll[u].initial_delay]]
       ELSE \E o \in Outcomes(u) :
                poll' = [poll EXCEPT ![u] = StartGet(EnterLoop(poll[u]), o)]
    /\ UNCHANGED <<network, mqtt, interval_ms, rtt, now, queue, csvfile, flush_left, publishing,
                   published, main, csv_logger_task>>
    /\ UNCHANGED <<device, coordinator>>

\* A polling task wakes from the initial delay or from the sleep at the end of
\* the loop body and sends its next GET.
PollWake(u) ==
    /\ u \in DOMAIN poll
    /\ poll[u].pc \in {"delay", "sleep"}
    /\ poll[u].sleep_left = 0
    /\ awaited(publishing) = <<>>
    /\ LET p == IF poll[u].pc = "delay" THEN EnterLoop(poll[u]) ELSE poll[u]
       IN  \E o \in Outcomes(u) : poll' = [poll EXCEPT ![u] = StartGet(p, o)]
    /\ UNCHANGED <<network, mqtt, interval_ms, rtt, now, queue, csvfile, flush_left, publishing,
                   published, main, csv_logger_task>>
    /\ UNCHANGED <<device, coordinator>>

\* A polling task that has ended: how is "failed" (an exception left the
\* coroutine) or "cancelled".
EndPoll(p, how) == [p EXCEPT !.pc = how, !.sleep_left = 0, !.pending = "none"]

\* The polling tasks whose coroutine has not ended.
Polling == {"new", "delay", "get", "sleep"}

\* send_coap_get returns: the rest of the loop body, up to the sleep or, when
\* there is no time left to sleep, to the await of the next GET.  Nothing
\* catches what from_json raises: the task ends with it and gather, which
\* main() awaits, raises it in main().
PollDone(u) ==
    /\ u \in DOMAIN poll
    /\ poll[u].pc = "get"
    /\ poll[u].sleep_left = 0
    /\ LET p == poll[u]
           \* send_coap_get: the payload, or None
           payload ==
               CASE p.pending = "reply" -> <<DeviceReply(u, now)>>
                 [] p.pending = "diagnostic" -> <<Diagnostic>>
                 [] OTHER -> <<>>
       IN  IF payload # <<>> /\ from_json_raises(payload[1])
           THEN /\ poll' = [poll EXCEPT ![u] = EndPoll(p, "failed")]
                /\ main' = IF main.pc = "gather"
                           THEN [pc |-> "finally", exc |-> "ValidationError"]
                           ELSE main
                /\ UNCHANGED <<queue, publishing>>
           ELSE LET receipt_time == IF payload # <<>> THEN now ELSE 0 - 1
                    reply ==
                        IF payload # <<>> THEN <<from_json(payload[1])>>
                        ELSE IF p.reply # NoReply
                        THEN <<ErrorReply(p.reply[1], now)>>
                        ELSE NoReply
                    error == IF payload = <<>> /\ p.reply # NoReply THEN 1 ELSE 0
                    emitted == reply # NoReply
                    q == [p EXCEPT !.reply = reply,
                                   !.message_id = NextMessageId(@, emitted),
                                   !.pending = "none"]
                    elapsed == now - p.start_time
                IN  /\ queue' =
                           IF emitted
                           THEN Append(queue,
                                       log_data(reply[1], p.message_id,
                                                p.sent_time, receipt_time, u,
                                                error))
                           ELSE queue
                    \* asyncio.create_task(publish_task()): the task dumps
                    \* reply when it first runs, before this task can assign
                    \* reply again
                    /\ publishing' = IF emitted THEN Append(publishing, reply[1])
                                     ELSE publishing
                    /\ IF SleepTime(elapsed) > 0
                       THEN poll' = [poll EXCEPT ![u] =
                                        [q EXCEPT !.pc = "sleep",
                                                  !.sleep_left = SleepTime(elapsed)]]
                       ELSE \E o \in Outcomes(u) :
                                poll' = [poll EXCEPT ![u] = StartGet(q, o)]
                    /\ main' = main
    /\ UNCHANGED <<network, mqtt, interval_ms, rtt, now, csvfile, flush_left, published,
                   csv_logger_task>>
    /\ UNCHANGED <<device, coordinator>>

\* publish_task: the oldest publish task runs; what publish raises is caught
\* and printed.  The task of a publish that does not return stays as it is.
publish_task ==
    /\ publishing # <<>>
    /\ mqtt # "stalled"
    /\ published' = IF mqtt = "up" THEN Append(published, Head(publishing))
                    ELSE published
    /\ publishing' = Tail(publishing)
    /\ UNCHANGED <<network, mqtt, interval_ms, rtt, now, poll, queue, csvfile, flush_left, main,
                   csv_logger_task>>
    /\ UNCHANGED <<device, coordinator>>

\* _flush_periodically wakes from asyncio.sleep(CSV_FLUSH_INTERVAL):
\* _flush_all writes the queued rows in queue order.
_flush_all ==
    /\ csv_logger_task = "sleep"
    /\ now > 0
    /\ flush_left = 0
    /\ csvfile' = csvfile \o queue
    /\ queue' = <<>>
    /\ flush_left' = FlushInterval
    /\ UNCHANGED <<network, mqtt, interval_ms, rtt, now, poll, publishing, published, main,
                   csv_logger_task>>
    /\ UNCHANGED <<device, coordinator>>

\* A polling task that runs before the clock moves on.
PollDue(p) ==
    p.pc = "new" \/ (p.pc \in {"delay", "sleep", "get"} /\ p.sleep_left = 0)

\* One tick passes on the gateway's clocks, while main() awaits gather.
GwTick ==
    /\ DOMAIN poll # {}
    /\ main.pc = "gather"
    /\ now < Horizon
    /\ \A u \in DOMAIN poll : ~PollDue(poll[u])
    /\ publishing = <<>> \/ mqtt = "stalled"
    /\ flush_left > 0
    /\ now' = now + 1
    /\ flush_left' = flush_left - 1
    /\ poll' = [u \in DOMAIN poll |->
                   IF poll[u].pc \in Polling
                   THEN [poll[u] EXCEPT !.sleep_left = @ - 1]
                   ELSE poll[u]]
    /\ UNCHANGED <<network, mqtt, interval_ms, rtt, queue, csvfile, publishing, published, main,
                   csv_logger_task>>
    /\ UNCHANGED <<device, coordinator>>

\* SIGINT while main() awaits gather: asyncio.run cancels the main task, the
\* cancelled gather cancels every polling task, each ends at the await it is
\* in, and CancelledError is raised in main(), which catches it.
KeyboardInterrupt ==
    /\ main.pc = "gather"
    /\ poll' = [u \in DOMAIN poll |->
                   IF poll[u].pc \in Polling THEN EndPoll(poll[u], "cancelled")
                   ELSE poll[u]]
    /\ main' = [pc |-> "finally", exc |-> "CancelledError"]
    /\ UNCHANGED <<network, mqtt, interval_ms, rtt, now, queue, csvfile, flush_left, publishing,
                   published, csv_logger_task>>
    /\ UNCHANGED <<device, coordinator>>

\* main(), finally: csv_logger_task.cancel() and await csv_logger_task.
\* AsyncCSVLogger.start catches the CancelledError raised in its sleep, writes
\* the queued rows (_flush_all) and closes the file; main() goes on to await
\* protocol.shutdown().
start_cancelled ==
    /\ main.pc = "finally"
    /\ csv_logger_task = "sleep"
    /\ csvfile' = csvfile \o queue
    /\ queue' = <<>>
    /\ csv_logger_task' = "closed"
    /\ main' = [main EXCEPT !.pc = "shutdown"]
    /\ UNCHANGED <<network, mqtt, interval_ms, rtt, now, poll, flush_left, publishing, published>>
    /\ UNCHANGED <<device, coordinator>>

\* main() returns or unwinds with its exception, and asyncio.run cancels the
\* tasks that are left.
run_exit ==
    /\ main.pc = "shutdown"
    /\ poll' = [u \in DOMAIN poll |->
                   IF poll[u].pc \in Polling THEN EndPoll(poll[u], "cancelled")
                   ELSE poll[u]]
    /\ publishing' = <<>>
    /\ main' = [main EXCEPT !.pc = "exited"]
    /\ UNCHANGED <<network, mqtt, interval_ms, rtt, now, queue, csvfile, flush_left, published,
                   csv_logger_task>>
    /\ UNCHANGED <<device, coordinator>>

\* main(): the logger task and one polling task per URI are created.
GatewayInit ==
    /\ interval_ms \in Intervals
    /\ network \in Networks
    /\ mqtt \in Brokers
    /\ rtt \in Latencies
    /\ now = 0
    /\ poll \in [URIs -> {NewPoll(d) : d \in InitialDelays}]
    /\ queue = <<>>
    /\ csvfile = <<>>
    /\ flush_left = FlushInterval
    /\ publishing = <<>>
    /\ published = <<>>
    /\ main = [pc |-> "gather", exc |-> "none"]
    /\ csv_logger_task = "sleep"

\* The gateway alone: the device of this module takes no step.
InitGw ==
    /\ DeviceInit
    /\ device_config.battery_charge > 0
    /\ GatewayInit
    /\ CoordinatorNotStarted

NextGw ==
    \/ \E u \in URIs : PollStart(u)
    \/ \E u \in URIs : PollWake(u)
    \/ \E u \in URIs : PollDone(u)
    \/ publish_task
    \/ _flush_all
    \/ GwTick
    \/ KeyboardInterrupt
    \/ start_cancelled
    \/ run_exit

SpecGw == InitGw /\ [][NextGw]_vars

\* ------------------------------------------------------ the coordinator
\* evman.py: the schedule file is loaded, sorted, and one task per entry
\* sleeps until its offset and POSTs its event.  Time is counted in
\* milliseconds since run() took start_time; the clock jumps to the next
\* moment at which a task is due.  The steps between two awaits take no time.

\* TIMEOUT_POST, in seconds
TIMEOUT_POST == 5

\* Entries in a schedule file at most.
MaxEntries == 3

\* the fields of EventConfig that have no default
RequiredFields ==
    {"event_name", "temperature_range", "battery_transmit_discharge",
     "battery_idle_discharge", "drop_percentage", "delay_profiles"}

\* An event that gives every field.
EventStorm ==
    [event_name |-> "Storm",
     event_type |-> "permanent",
     temperature_range |-> <<5, 9>>,
     battery_transmit_discharge |-> 2,
     battery_idle_discharge |-> 1,
     drop_percentage |-> 40,
     delay_profiles |-> <<Profile(100, 1, 1)>>,
     coordinate |-> EmptyCoordinate,
     transition_duration_s |-> 2,
     transient_event_duration_s |-> 0,
     transient_event_return_s |-> 0]

\* A JSON number where the URI of the device should be.
NotAURI == "5"

\* What the entries of a schedule file are taken from: entries with offsets
\* out of order and with equal offsets, an entry whose event lacks required
\* fields, an entry with no "event" key, and an entry whose device is no URI.
FileEntries ==
    { [time_ms |-> 500, device |-> "coap://a/device/data", event |-> EventStorm],
      [time_ms |-> 100, device |-> "coap://b/device/data", event |-> EventStorm],
      [time_ms |-> 300, device |-> "coap://a/device/data", event |-> EventStorm],
      [time_ms |-> 300, device |-> "coap://b/device/data", event |-> EventStorm],
      [time_ms |-> 100, device |-> "coap://a/device/data", event |-> BodyHot],
      [time_ms |-> 300, device |-> "coap://b/device/data"],
      [time_ms |-> 300, device |-> NotAURI, event |-> EventStorm] }

\* The schedule files: up to MaxEntries different entries, in any order.
ScheduleFiles ==
    UNION { {f \in [1..n -> FileEntries] :
                \A i, j \in 1..n : f[i] = f[j] => i = j} : n \in 1..MaxEntries }

\* DeviceEvent.from_dict exits: a key is missing (KeyError) or
\* EventConfig.from_dict rejects the event (a ValidationError is a ValueError).
from_dict_exits(data) ==
    \/ ~({"time_ms", "device", "event"} \subseteq DOMAIN data)
    \/ ~(RequiredFields \subseteq DOMAIN data.event)

\* aiocoap.Message(code=POST, uri=device, ...) raises for a device that is no
\* CoAP URI.
MalformedUrl(uri) == uri \notin URIs

\* sorted(schedule, key=lambda e: e.time_ms): ascending and stable
RECURSIVE sorted(_)
sorted(q) ==
    IF q = <<>> THEN <<>>
    ELSE LET front == sorted(SubSeq(q, 1, Len(q) - 1))
             e == q[Len(q)]
             k == Cardinality({j \in 1..Len(front) :
                                  front[j].time_ms <= e.time_ms})
         IN  SubSeq(front, 1, k) \o <<e>> \o SubSeq(front, k + 1, Len(front))

\* A run() whose tasks do not sleep.
delay_none(time_ms, elapsed) == 0

\* run(): delay = max(0, time_ms / 1000 - elapsed), in milliseconds
delay(time_ms, elapsed) == Max(0, time_ms - elapsed)

\* A send_event that catches the timeout only.
send_event_catches_timeout(exc) == exc = "TimeoutError"

\* send_event: except asyncio.TimeoutError, except Exception
send_event_catches(exc) == exc \in {"TimeoutError", "NetworkError"}

\* How the await of the response can end: with a response or a transport
\* error after a tenth of a second, or with the timeout of wait_for.
PostOutcomes ==
    { [exc |-> "none", latency |-> 100],
      [exc |-> "NetworkError", latency |-> 100],
      [exc |-> "TimeoutError", latency |-> TIMEOUT_POST * 1000] }

\* The tasks of run() whose coroutine has not ended.
Scheduled == {"sleep", "post"}

\* load_schedule and EventCoordinator.__init__: an entry from_dict rejects
\* ends the process with sys.exit(1).
load_schedule ==
    /\ run_pc = "load"
    /\ IF \E i \in 1..Len(schedule_file) : from_dict_exits(schedule_file[i])
       THEN /\ run_pc' = "exit1"
            /\ schedule' = schedule
       ELSE /\ run_pc' = "run"
            /\ schedule' = sorted(schedule_file)
    /\ UNCHANGED <<schedule_file, run_tasks, loop_time, posts>>
    /\ UNCHANGED <<device, gateway>>

\* EventCoordinator.run, up to the await of gather: one task per entry, in
\* the order of schedule
run ==
    /\ run_pc = "run"
    /\ run_tasks' = [i \in 1..Len(schedule) |->
                        [pc |-> "sleep", exc |-> "none",
                         sleep_left |-> delay(schedule[i].time_ms, loop_time)]]
    /\ run_pc' = "gather"
    /\ UNCHANGED <<schedule_file, schedule, loop_time, posts>>
    /\ UNCHANGED <<device, gateway>>

\* schedule_event wakes from its sleep and send_event runs up to the await of
\* the response: the request is sent.  What Message raises is outside the
\* try of send_event: it ends the task, and gather raises it in run().
schedule_event(i) ==
    /\ i \in DOMAIN run_tasks
    /\ run_tasks[i].pc = "sleep"
    /\ run_tasks[i].sleep_left = 0
    /\ IF MalformedUrl(schedule[i].device)
       THEN /\ run_tasks' = [run_tasks EXCEPT ![i] =
                                [pc |-> "failed", exc |-> "MalformedUrlError",
                                 sleep_left |-> 0]]
            /\ run_pc' = IF run_pc = "gather" THEN "raised" ELSE run_pc
            /\ posts' = posts
       ELSE /\ \E o \in PostOutcomes :
                   run_tasks' = [run_tasks EXCEPT ![i] =
                                    [pc |-> "post", exc |-> o.exc,
                                     sleep_left |-> o.latency]]
            /\ posts' = Append(posts, [entry |-> i,
                                       device |-> schedule[i].device,
                                       event |-> schedule[i].event,
                                       at |-> loop_time])
            /\ run_pc' = run_pc
    /\ UNCHANGED <<schedule_file, schedule, loop_time>>
    /\ UNCHANGED <<device, gateway>>

\* The await of the response ends: the response code is printed, or the
\* exception is caught and printed; an exception that is not caught ends the
\* task and gather raises it in run().
send_event_done(i) ==
    /\ i \in DOMAIN run_tasks
    /\ run_tasks[i].pc = "post"
    /\ run_tasks[i].sleep_left = 0
    /\ IF run_tasks[i].exc = "none" \/ send_event_catches(run_tasks[i].exc)
       THEN /\ run_tasks' = [run_tasks EXCEPT ![i].pc = "done"]
            /\ run_pc' = run_pc
       ELSE /\ run_tasks' = [run_tasks EXCEPT ![i].pc = "failed"]
            /\ run_pc' = IF run_pc = "gather" THEN "raised" ELSE run_pc
    /\ UNCHANGED <<schedule_file, schedule, loop_time, posts>>
    /\ UNCHANGED <<device, gateway>>

\* Every task has ended without an exception: gather, run() and main() return.
run_returns ==
    /\ run_pc = "gather"
    /\ \A i \in DOMAIN run_tasks : run_tasks[i].pc = "done"
    /\ run_pc' = "returned"
    /\ UNCHANGED <<schedule_file, schedule, run_tasks, loop_time, posts>>
    /\ UNCHANGED <<device, gateway>>

\* main() catches what run() raised and calls sys.exit(1); asyncio.run
\* cancels the tasks that are left.
sys_exit ==
    /\ run_pc = "raised"
    /\ run_pc' = "exit1"
    /\ run_tasks' = [i \in DOMAIN run_tasks |->
                        IF run_tasks[i].pc \in Scheduled
                        THEN [run_tasks[i] EXCEPT !.pc = "cancelled",
                                                  !.sleep_left = 0]
                        ELSE run_tasks[i]]
    /\ UNCHANGED <<schedule_file, schedule, loop_time, posts>>
    /\ UNCHANGED <<device, gateway>>

\* The tasks of run() that are waiting for the clock.
Waiting == {i \in DOMAIN run_tasks : run_tasks[i].pc \in Scheduled}

\* The loop clock moves to the next moment at which a task is due.
EvTick ==
    /\ run_pc = "gather"
    /\ Waiting # {}
    /\ \A i \in Waiting : run_tasks[i].sleep_left > 0
    /\ LET dt == CHOOSE d \in {run_tasks[i].sleep_left : i \in Waiting} :
                     \A i \in Waiting : d <= run_tasks[i].sleep_left
       IN  /\ loop_time' = loop_time + dt
           /\ run_tasks' = [i \in DOMAIN run_tasks |->
                               IF i \in Waiting
                               THEN [run_tasks[i] EXCEPT !.sleep_left = @ - dt]
                               ELSE run_tasks[i]]
    /\ UNCHANGED <<schedule_file, schedule, run_pc, posts>>
    /\ UNCHANGED <<device, gateway>>

\* main(schedule_path), for a schedule file that is a JSON array of objects
CoordinatorInit ==
    /\ schedule_file \in ScheduleFiles
    /\ schedule = <<>>
    /\ run_pc = "load"
    /\ run_tasks = <<>>
    /\ loop_time = 0
    /\ posts = <<>>

\* The coordinator alone: the device and the gateway of this module take no
\* step.
InitEv ==
    /\ DeviceInit
    /\ device_config.battery_charge > 0
    /\ GatewayNotStarted
    /\ CoordinatorInit

NextEv ==
    \/ load_schedule
    \/ run
    \/ \E i \in 1..MaxEntries : schedule_event(i)
    \/ \E i \in 1..MaxEntries : send_event_done(i)
    \/ run_returns
    \/ sys_exit
    \/ EvTick

SpecEv == InitEv /\ [][NextEv]_vars

\* The coordinator's loop runs every step that is due.
FairSpecEv == SpecEv /\ WF_vars(NextEv)

\* ------------------------------------------------------------------ claims
\* The transition tasks whose coroutine has not ended.
AliveTasks == {i \in DOMAIN tasks : tasks[i].pc \in Alive}

\* A step of transition task i.
TaskStep(i) == TaskStart(i) \/ LegWake(i) \/ HoldWake(i)

\* The live scalars are the values of event ev; the coordinate too when ev
\* gives one.
LiveAt(ev) ==
    /\ current_temp_min = ev.temperature_range[1]
    /\ current_temp_max = ev.temperature_range[2]
    /\ current_drop_percentage = ev.drop_percentage
    /\ current_battery_transmit_discharge = ev.battery_transmit_discharge
    /\ current_battery_idle_discharge = ev.battery_idle_discharge
    /\ Size(ev.coordinate) > 0 => current_coordinate = ev.coordinate

\* The live fields other than the coordinate are the values of event ev.
LiveAtExceptCoordinate(ev) ==
    /\ current_temp_min = ev.temperature_range[1]
    /\ current_temp_max = ev.temperature_range[2]
    /\ current_drop_percentage = ev.drop_percentage
    /\ current_battery_transmit_discharge = ev.battery_transmit_discharge
    /\ current_battery_idle_discharge = ev.battery_idle_discharge
    /\ delay_weights = Weights(ev.delay_profiles)
    /\ delay_ranges = Ranges(ev.delay_profiles)

RECURSIVE SumSeq(_)
SumSeq(q) == IF q = <<>> THEN 0 ELSE Head(q) + SumSeq(Tail(q))

\* C1: in every reachable state at most one transition task is alive (a
\* permanent transition, or a transient sequence in its first leg, hold or
\* return leg).
C1_AtMostOneTransition == Cardinality(AliveTasks) <= 1

\* C2: once a later POST has been accepted, the task of an earlier POST
\* writes nothing to the device any more: no step of it changes the live
\* profile, current_event, target_event, previous_event, the event objects or
\* the task handle.
C2_EarlierTaskWritesNothing ==
    [][\A i \in DOMAIN tasks :
          i < Len(tasks) =>
              ~(TaskStep(i) /\ <<profile, refs>>' # <<profile, refs>>)]_vars

\* C3: the last accepted POST wins.  When the last accepted POST b is
\* permanent, was accepted while an earlier transition was in progress (one is
\* still alive, so it was alive when b was accepted) and its task has run to
\* the end of its duration, current_event is b's target event and the live
\* fields equal b's target values.
C3_LastPostWins ==
    \A b \in DOMAIN tasks :
        ( /\ b = Len(tasks)
          /\ tasks[b].kind = "permanent"
          /\ tasks[b].pc = "done"
          /\ \E a \in 1..(b - 1) : tasks[a].pc \in Alive )
        => /\ current_event = b + 1
           /\ LiveAt(events[b + 1])

\* C4: no step increases battery_charge.
C4_BatteryNeverIncreases ==
    [][current_battery_charge' <= current_battery_charge]_vars

\* C5: after every step 0 <= battery_charge <= the initial charge, and from a
\* state with charge 0 every step leads to a state with charge 0 and
\* discharged true.
C5_ChargeWithinBounds ==
    [][ /\ 0 <= current_battery_charge'
        /\ current_battery_charge' <= device_config.battery_charge
        /\ current_battery_charge = 0 =>
               (current_battery_charge' = 0 /\ discharged /\ discharged')
      ]_vars

\* C6: in a state with battery_charge 0, every GET and every POST that is
\* handled is answered not-found and changes nothing of the device: no
\* battery decrement, no target_event, no transition cancelled or started.
C6_DischargedRejects ==
    [][current_battery_charge = 0 =>
          /\ \A payload \in Payloads :
                render_post(payload) =>
                    /\ response'.code = "4.04 Not Found"
                    /\ UNCHANGED <<profile, battery, refs, tasks, idle_pc, gets>>
          /\ render_get =>
                /\ response'.code = "4.04 Not Found"
                /\ UNCHANGED <<profile, battery, refs, tasks, idle_pc, gets>>
      ]_vars

\* C6, its case: a device that has served requests and run a transition is
\* at charge 0 and has just answered a POST with not-found.
C6_Witness ==
    /\ current_battery_charge = 0
    /\ nreq > 0
    /\ Len(tasks) > 0
    /\ response.method = "POST"
    /\ response.code = "4.04 Not Found"

\* C7: patch semantics.  The target_event an accepted POST installs has, for
\* every field the body omits, the value of current_event as it is when the
\* POST is handled, and for every field the body gives, the body's value.
C7_PatchSemantics ==
    [][\A payload \in JsonBodies :
          (render_post(payload) /\ response'.code = "2.01 Created") =>
              \A f \in Fields :
                  events'[target_event'][f] =
                      IF f \in DOMAIN payload THEN payload[f]
                      ELSE events[current_event][f]
      ]_vars

\* C7, its case: a POST that omits the event name was accepted while the
\* transition of an earlier POST was in flight (and cancelled it); its target
\* carries the name of current_event, which is still the pre-transition event.
C7_Witness ==
    /\ Len(tasks) = 2
    /\ tasks[1].pc = "cancelled"
    /\ tasks[2].pc = "new"
    /\ target_event = 3
    /\ events[3].battery_transmit_discharge = 0 - 1
    /\ events[3].event_name = events[current_event].event_name
    /\ events[2].event_name # events[3].event_name

\* C8: the active delay profiles have probabilities that sum to 100 in every
\* reachable state.
C8_ProbabilitySum == SumSeq(delay_weights) = RequiredProbability

\* C9: when a permanent transition that was not cancelled ends, every live
\* field equals the target of its event, the active delay profiles are the
\* target list, current_event is its target event and the task handle is
\* cleared.
C9_TransitionConverges ==
    [][\A i \in DOMAIN tasks :
          ( /\ tasks[i].kind = "permanent"
            /\ tasks[i].pc \in Alive
            /\ tasks'[i].pc = "done" )
          => /\ current_event' = i + 1
             /\ LiveAt(events[i + 1])'
             /\ Len(events[i + 1].delay_profiles) > 0 =>
                    delay_weights' = Weights(events[i + 1].delay_profiles)
             /\ transition_task' = None
      ]_vars

\* C10: a transient POST after which no further POST is accepted runs its
\* whole sequence (it does not stop before the return leg), and when it has
\* finished current_event is the event that was current when the POST
\* arrived and every live field but the coordinate has that event's value.
C10_TransientReturns ==
    \A i \in DOMAIN tasks :
        (i = Len(tasks) /\ tasks[i].kind = "transient") =>
            /\ tasks[i].pc # "failed"
            /\ tasks[i].pc = "done" =>
                   /\ current_event = tasks[i].base
                   /\ LiveAtExceptCoordinate(events[tasks[i].base])

\* C11: the return leg of a transient sequence never reverts a coordinate
\* change.  The step that ends the hold and starts the return leg stores the
\* live coordinate in the event it returns to, and neither that step nor any
\* later step of the return leg changes current_coordinate.
C11_ReturnKeepsCoordinate ==
    [][\A i \in DOMAIN tasks :
          /\ (HoldWake(i) /\ tasks'[i].pc \in {"leg2", "done"}) =>
                 /\ events'[target_event'].coordinate = current_coordinate
                 /\ current_coordinate' = current_coordinate
          /\ (tasks[i].pc = "leg2" /\ LegWake(i)) =>
                 current_coordinate' = current_coordinate
      ]_vars

\* C12: current_event becomes the target event only when a transition
\* reaches full progress.  While a first leg or a permanent transition has
\* not finished, current_event is the event that was current when its POST
\* was handled; while a return leg has not finished, current_event is the
\* transient event of its sequence.
C12_CurrentEventUntilComplete ==
    \A i \in DOMAIN tasks :
        /\ tasks[i].pc \in {"new", "leg1"} => current_event = tasks[i].base
        /\ tasks[i].pc = "leg2" => current_event = i + 1

\* C13: a GET that is dropped changes nothing of the battery when it is
\* drawn, and after its sleep it is answered not-found, again with the battery
\* untouched.  With current_drop_percentage = 100 every GET a device that is
\* not discharged handles is dropped, with current_drop_percentage = 0 none.
C13_DroppedGet ==
    [][ /\ (render_get /\ ~discharged) =>
               /\ dropping' = dropping + 1 => UNCHANGED <<battery, response>>
               /\ current_drop_percentage = 100 => dropping' = dropping + 1
               /\ current_drop_percentage = 0 => dropping' = dropping
        /\ render_get_dropped =>
               /\ response'.code = "4.04 Not Found"
               /\ UNCHANGED <<battery, profile, refs, tasks>>
      ]_vars

\* C13, its case: after one POST and one GET the drop percentage has reached
\* 100, the GET was dropped and answered not-found after its sleep, and the
\* charge is the initial charge less the cost of the POST alone.
C13_Witness ==
    /\ current_drop_percentage = 100
    /\ ~discharged
    /\ current_battery_charge = device_config.battery_charge - 1
    /\ nreq = 2
    /\ dropping = 0
    /\ response.method = "GET"
    /\ response.code = "4.04 Not Found"

StartOf(i) == IF tasks[i].pc = "new" THEN StartValues ELSE tasks[i].start

\* C15: a field the body of an accepted POST leaves unspecified (absent, or
\* an empty coordinate) is not interpolated by the transition the POST starts:
\* after every step taken while that transition runs, its completion
\* included, the live value is the one the transition started with.
C15_UnspecifiedFieldKept ==
    [][\A i \in DOMAIN tasks :
          ( /\ tasks[i].pc \in {"new", "leg1"}
            /\ tasks'[i].pc \in {"leg1", "hold", "done"} ) =>
              /\ "temperature_range" \notin tasks[i].given =>
                     /\ current_temp_min' = StartOf(i).temp_min
                     /\ current_temp_max' = StartOf(i).temp_max
              /\ "drop_percentage" \notin tasks[i].given =>
                     current_drop_percentage' = StartOf(i).drop_percentage
              /\ "battery_transmit_discharge" \notin tasks[i].given =>
                     current_battery_transmit_discharge' =
                         StartOf(i).battery_transmit_discharge
              /\ "battery_idle_discharge" \notin tasks[i].given =>
                     current_battery_idle_discharge' =
                         StartOf(i).battery_idle_discharge
              /\ ( \/ "coordinate" \notin tasks[i].given
                   \/ Size(events[i + 1].coordinate) = 0 ) =>
                     current_coordinate' = StartOf(i).coordinate
      ]_vars

\* x lies between a and b, inclusive, whichever of the two is the greater.
Between(x, a, b) == (a <= x /\ x <= b) \/ (b <= x /\ x <= a)

\* The scalars and both coordinate components of live (a record of live
\* values, as StartValues reads them) lie between the start values and the
\* target values of the locals t of a transition.
Within(live, t) ==
    /\ Between(live.temp_min, t.start.temp_min, t.target.temp_min)
    /\ Between(live.temp_max, t.start.temp_max, t.target.temp_max)
    /\ Between(live.drop_percentage, t.start.drop_percentage,
               t.target.drop_percentage)
    /\ Between(live.battery_transmit_discharge,
               t.start.battery_transmit_discharge,
               t.target.battery_transmit_discharge)
    /\ Between(live.battery_idle_discharge, t.start.battery_idle_discharge,
               t.target.battery_idle_discharge)
    /\ Between(live.coordinate["latitude"], t.start.coordinate["latitude"],
               t.target.coordinate["latitude"])
    /\ Between(live.coordinate["longitude"], t.start.coordinate["longitude"],
               t.target.coordinate["longitude"])

\* C16: at every step of a transition (an iteration of its loop, or the
\* statements after the loop) each live scalar it writes lies between the
\* value it had when that transition started and that transition's target
\* value, inclusive.
C16_InterpolationBounds ==
    [][\A i \in DOMAIN tasks :
          /\ (TaskStep(i) /\ tasks'[i].pc \in {"leg1", "leg2"}) =>
                 Within(StartValues', tasks'[i])
          /\ (LegWake(i) /\ tasks'[i].pc \notin {"leg1", "leg2"}) =>
                 Within(StartValues', tasks[i])
      ]_vars

\* C16, its case: a return leg that brings the temperature down has run an
\* iteration at positive progress and the live minimum is strictly between
\* its start value and its target value.
C16_Witness ==
    \E i \in DOMAIN tasks :
        /\ tasks[i].pc = "leg2"
        /\ tasks[i].elapsed > 0
        /\ tasks[i].sleep_left = 1
        /\ tasks[i].target.temp_min < current_temp_min
        /\ current_temp_min < tasks[i].start.temp_min

\* C17: a running transition task stops when the device becomes discharged.
\* From a state in which discharged is true no transition task takes a step
\* that updates the live profile or current_event.
C17_DischargeStopsTransition ==
    [][discharged =>
          \A i \in DOMAIN tasks :
              ~(TaskStep(i) /\ <<profile, current_event>>' # <<profile, current_event>>)
      ]_vars

\* C28: each idle-drain tick subtracts the static battery_idle_discharge of
\* the DeviceConfig, clamped at 0, whatever battery_idle_discharge has been
\* POSTed or interpolated into the live profile, and the idle-drain loop
\* exits, with discharged set, exactly when the tick leaves the charge at 0.
C28_IdleDrainStatic ==
    [][IdleDrain =>
          /\ current_battery_charge' =
                 Max(0, current_battery_charge
                            - device_config.battery_idle_discharge)
          /\ (current_battery_charge' = 0) <=> (idle_pc' = "exit")
          /\ current_battery_charge' = 0 => discharged'
      ]_vars

\* C28, its case: the live idle rate is 3, the static one is 1; the one POST
\* admitted cost 1 and the charge is 1 below that: an idle tick has
\* subtracted 1.
C28_Witness ==
    /\ current_battery_idle_discharge = 3
    /\ device_config.battery_idle_discharge = 1
    /\ nreq = 1
    /\ current_battery_charge = device_config.battery_charge - 2
    /\ idle_pc = "sleep"

\* The elapsed time at which the last iteration of the transition with the
\* locals t ran: a task that is due again has not yet run the iteration of
\* its present elapsed time.
LastIteration(t) == IF t.sleep_left = 0 THEN t.elapsed - 1 ELSE t.elapsed

\* The active delay profile list after the step is the list profiles.
ActiveProfiles(profiles) ==
    /\ delay_weights' = Weights(profiles)
    /\ delay_ranges' = Ranges(profiles)

\* C29: during a transition the active delay profile list is the list that
\* was active at its start while progress < 0.5 and the target list from the
\* first step with progress >= 0.5 on.  No step taken while the latest
\* iteration of a transition was below half of its duration changes the
\* active list, and after every step taken at or beyond the half, the end of
\* the transition included, weights and ranges are both those of the target
\* list: the list changes in one step and is never a mix of the two.
C29_DelayProfileSwap ==
    [][\A i \in DOMAIN tasks :
          LET t == tasks'[i]
          IN  /\ t.pc \in {"leg1", "leg2"} =>
                     IF 2 * LastIteration(t) >= t.duration
                     THEN ActiveProfiles(t.target.delay_profiles)
                     ELSE UNCHANGED <<delay_weights, delay_ranges>>
              /\ (LegWake(i) /\ t.pc \notin {"leg1", "leg2"}) =>
                     ActiveProfiles(tasks[i].target.delay_profiles)
      ]_vars

\* C30: a GET reply is built from the device state at response time: the
\* reply sent after the delay carries the status of current_event, the
\* battery charge and the coordinate as they are when the delay is over, and
\* a temperature from the live range of that moment.
C30_ReplyAtResponseTime ==
    [][render_get_reply =>
          /\ response'.code = "2.05 Content"
          /\ response'.payload.status = events[current_event].event_name
          /\ response'.payload.battery = current_battery_charge
          /\ response'.payload.coordinate = current_coordinate
          /\ Between(response'.payload.temperature, current_temp_min,
                     current_temp_max)
      ]_vars

\* C30, its case: a reply has been sent whose temperature is a value of the
\* live range in the middle of a transition, different from the range the
\* device started with and from the target's, by a device whose charge is
\* below the initial one.
C30_Witness ==
    /\ response.method = "GET"
    /\ response.code = "2.05 Content"
    /\ response.payload.temperature = current_temp_min
    /\ response.payload.battery < device_config.battery_charge
    /\ \E i \in DOMAIN tasks :
          /\ tasks[i].pc = "leg1"
          /\ tasks[i].elapsed > 0
          /\ tasks[i].start.temp_min < current_temp_min
          /\ current_temp_min < tasks[i].target.temp_min

\* C31: every POST admitted by a device that is not discharged, whatever its
\* outcome, and every GET that is not dropped subtracts the live
\* current_battery_transmit_discharge of that moment from the charge, clamped
\* at 0, and does so once: the later steps of the GET handler, a dropped GET
\* and a request to a discharged device leave the charge as it is.
C31_TransmitCostOnce ==
    [][/\ \A payload \in Payloads :
             render_post(payload) =>
                 current_battery_charge' =
                     IF discharged THEN current_battery_charge
                     ELSE Max(0, current_battery_charge
                                     - current_battery_transmit_discharge)
       /\ render_get =>
             current_battery_charge' =
                 IF discharged \/ dropping' # dropping
                 THEN current_battery_charge
                 ELSE Max(0, current_battery_charge
                                 - current_battery_transmit_discharge)
       /\ (render_get_reply \/ render_get_dropped) =>
             current_battery_charge' = current_battery_charge
      ]_vars

\* C31, its case: the live transmit rate is 0, half way from 1 to -1; of
\* three requests admitted the two POSTs cost 1 each and the charge is 2
\* below the initial one: the third request was charged the live rate 0.
C31_Witness ==
    /\ current_battery_transmit_discharge = 0
    /\ device_config.battery_transmit_discharge = 1
    /\ nreq = 3
    /\ Len(tasks) = 2
    /\ current_battery_charge = device_config.battery_charge - 2
    /\ ~discharged

\* C32: a GET changes only battery_charge and discharged: after each step
\* of the GET handler (the entry, the reply after the delay, the error after
\* the drop sleep) current_event, target_event, every live profile field, the
\* active delay profiles and the transition task handle are what they were
\* before it.
C32_GetFrame ==
    [][(render_get \/ render_get_reply \/ render_get_dropped) =>
          UNCHANGED <<current_event, target_event, profile, transition_task>>
      ]_vars

\* C32, its case: the last response is the content reply of a GET, sent
\* while the transition of a POST is in its first leg and holds the handle,
\* with current_event not yet the target.
C32_Witness ==
    /\ response.method = "GET"
    /\ response.code = "2.05 Content"
    /\ transition_task # None
    /\ tasks[transition_task].pc = "leg1"
    /\ tasks[transition_task].elapsed > 0
    /\ target_event # current_event
    /\ delaying = 0

\* C36: the transition task handle is non-null in every state in which a
\* transition coroutine is alive, the hold and the return leg of a transient
\* sequence included, and it is null in every state in which none is alive
\* and the transition of the last POST has completed.
C36_HandleTracksTask ==
    /\ AliveTasks # {} => transition_task # None
    /\ (AliveTasks = {} /\ tasks # <<>> /\ tasks[Len(tasks)].pc = "done") =>
           transition_task = None

\* C37: whenever no transition coroutine is alive, the live profile agrees
\* with current_event: temperature min and max, drop percentage, transmit and
\* idle discharge and the active delay profiles are those of the event
\* current_event refers to.
C37_LiveAgreesWithCurrentEvent ==
    AliveTasks = {} =>
        LET ev == events[current_event]
        IN  /\ current_temp_min = ev.temperature_range[1]
            /\ current_temp_max = ev.temperature_range[2]
            /\ current_drop_percentage = ev.drop_percentage
            /\ current_battery_transmit_discharge = ev.battery_transmit_discharge
            /\ current_battery_idle_discharge = ev.battery_idle_discharge
            /\ delay_weights = Weights(ev.delay_profiles)
            /\ delay_ranges = Ranges(ev.delay_profiles)

DurationOf(i) ==
    IF tasks[i].kind = "transient"
    THEN events[target_event].transition_duration_s
    ELSE tasks[i].arg

\* C40: a transition with duration 0 performs no interpolation step and no
\* division: the first step of its task sets every live field to the value of
\* the target event (an empty coordinate or delay profile list keeps the
\* current one) and current_event to the target event, and the task does not
\* enter the loop of the first leg.
C40_ZeroDurationImmediate ==
    [][\A i \in DOMAIN tasks :
          (tasks[i].pc = "new" /\ DurationOf(i) = 0 /\ TaskStart(i)) =>
              LET tgt == events[target_event]
              IN  /\ current_event' = target_event
                  /\ current_temp_min' = tgt.temperature_range[1]
                  /\ current_temp_max' = tgt.temperature_range[2]
                  /\ current_drop_percentage' = tgt.drop_percentage
                  /\ current_battery_transmit_discharge' =
                         tgt.battery_transmit_discharge
                  /\ current_battery_idle_discharge' =
                         tgt.battery_idle_discharge
                  /\ current_coordinate' =
                         IF Size(tgt.coordinate) > 0 THEN tgt.coordinate
                         ELSE current_coordinate
                  /\ Len(tgt.delay_profiles) > 0 =>
                         /\ delay_weights' = Weights(tgt.delay_profiles)
                         /\ delay_ranges' = Ranges(tgt.delay_profiles)
                  /\ tasks'[i].pc \in {"done", "hold"}
      ]_vars

\* C40, its case: the only POST gave no duration and inherited 0 from the
\* start-up event; its task has run once and is done, current_event is the
\* event of the POST and the live transmit and idle rates are the POSTed -1
\* and 3.
C40_Witness ==
    /\ Len(tasks) = 1
    /\ tasks[1].pc = "done"
    /\ events[2].transition_duration_s = 0
    /\ current_event = 2
    /\ current_battery_transmit_discharge = 0 - 1
    /\ current_battery_idle_discharge = 3

\* ---------------------------------------------------- claims, the gateway
\* The rows the polling tasks have emitted, in the order of emission: those
\* written to the file, then those still queued.
AllRows == csvfile \o queue

\* The rows of URI u, in the order of emission.
RowsOf(u) == SelectSeq(AllRows, LAMBDA r : r.uri = u)

\* The number of rows of URI u with error = e.
Count(u, e) ==
    Cardinality({j \in 1..Len(AllRows) :
                    AllRows[j].uri = u /\ AllRows[j].error = e})

\* The last row of a successful GET among the rows q (there is one).
LastOk(q) ==
    q[CHOOSE j \in 1..Len(q) :
          /\ q[j].error = 0
          /\ \A k \in (j + 1)..Len(q) : q[k].error = 1]

\* The step appends exactly one row to the queue and writes nothing.
OneRowEmitted ==
    /\ csvfile' = csvfile
    /\ Len(queue') = Len(queue) + 1
    /\ SubSeq(queue', 1, Len(queue)) = queue

\* C18: when the GET of a tick fails and the polling task holds a last reply,
\* the tick emits exactly one row, with error = 1, temperature = 0,
\* battery = 0 and the uuid and the coordinate of the last reply received;
\* when it holds none, the tick emits no row.  A tick whose GET is answered
\* emits exactly one row, with error = 0.
C18_FailedGetRow ==
    [][\A u \in URIs :
          PollDone(u) =>
              LET p == poll[u]
                  row == queue'[Len(queue')]
              IN  IF p.pending = "reply"
                  THEN /\ OneRowEmitted
                       /\ row.uri = u
                       /\ row.error = 0
                  ELSE IF p.pending = "none" /\ p.reply # NoReply
                  THEN /\ OneRowEmitted
                       /\ row.uri = u
                       /\ row.error = 1
                       /\ row.temperature = 0
                       /\ row.battery = 0
                       /\ row.uuid = LastOk(RowsOf(u)).uuid
                       /\ row.longitude = LastOk(RowsOf(u)).longitude
                       /\ row.latitude = LastOk(RowsOf(u)).latitude
                  ELSE IF p.pending = "none"
                  THEN /\ UNCHANGED <<queue, csvfile>>
                       /\ RowsOf(u) = <<>>
                  ELSE TRUE
      ]_vars

\* C18, its case: the first tick of a URI failed with no last reply and
\* emitted nothing (its first row was sent later than its initial delay), a
\* later tick was answered by a device with positive temperature, battery and
\* coordinate, and the tick after that failed and emitted the error row.
C18_Witness ==
    \E u \in URIs :
        LET rows == RowsOf(u)
        IN  /\ Len(rows) = 2
            /\ rows[1].sent_time > poll[u].initial_delay
            /\ rows[1].error = 0
            /\ rows[1].temperature > 0
            /\ rows[1].battery > 0
            /\ rows[1].latitude > 0
            /\ rows[2].error = 1
            /\ rows[2].latitude = rows[1].latitude

\* The network of the failover scenario: one URI answers every GET, the other
\* is unreachable from the start.
Failover ==
    /\ network["coap://a/device/data"] = "up"
    /\ network["coap://b/device/data"] = "down"

C20_MessageIds ==
    \A u \in URIs :
        LET rows == RowsOf(u)
        IN  /\ \A j \in 1..Len(rows) : rows[j].message_id = j
            /\ \A j \in 1..(Len(rows) - 1) :
                   rows[j].sent_time < rows[j + 1].sent_time
            /\ poll[u].pc \in {"get", "sleep"} =>
                   poll[u].message_id = Len(rows) + 1

\* C20, its case: both URIs have emitted rows, interleaved, some written by a
\* flush and some still queued, and one URI had a tick that emitted no row
\* before its first row.
C20_Witness ==
    /\ csvfile # <<>>
    /\ queue # <<>>
    /\ \A u \in URIs : Len(RowsOf(u)) >= 2
    /\ \E u \in URIs : RowsOf(u)[1].sent_time > poll[u].initial_delay
    /\ \E j \in 1..(Len(AllRows) - 2) :
          /\ AllRows[j].uri # AllRows[j + 1].uri
          /\ AllRows[j + 1].uri # AllRows[j + 2].uri

\* The rows emitted for GETs that were answered with a reply.
Successes == {j \in 1..Len(AllRows) : AllRows[j].error = 0}

\* The bodies a device can have answered with.
DeviceReplies == {DeviceReply(u, t) : u \in URIs, t \in 0..Horizon}

\* C21: the gateway schedules one publish per successful GET, the body of
\* every published message is the reply received from the device, unchanged,
\* and a tick whose GET failed publishes nothing: until the process exits,
\* the publish tasks created (counted while no publish has raised and been
\* dropped) are as many as the GETs answered with a reply, and every body
\* published or about to be is a reply of a device.
C21_PublishPerSuccess ==
    /\ (main.pc # "exited" /\ mqtt # "raises") =>
           Len(published) + Len(publishing) = Cardinality(Successes)
    /\ \A j \in 1..Len(published) : published[j] \in DeviceReplies
    /\ \A j \in 1..Len(publishing) : publishing[j] \in DeviceReplies

\* C22: a failed GET for one URI (timeout, transport error, 4.04 or a payload
\* that cannot be parsed) is not fatal: as long as no SIGINT has arrived,
\* main() awaits its polling tasks and every polling task is alive, in its
\* initial delay, in a GET or asleep until its next one.
C22_FailedGetNotFatal ==
    main.exc # "CancelledError" =>
        /\ main.pc = "gather"
        /\ \A u \in URIs : poll[u].pc \in Polling

\* C23: every row a polling task enqueues is written to the file exactly
\* once, at a periodic flush or by the drain of the cancelled writer: the
\* rows written and the rows queued are all distinct, the rows of the file
\* are the first rows emitted, and once the writer has closed the file no
\* row is left in the queue.
C23_RowsWrittenOnce ==
    /\ \A i, j \in 1..Len(AllRows) :
           (AllRows[i].uri = AllRows[j].uri
                /\ AllRows[i].message_id = AllRows[j].message_id) => i = j
    /\ csv_logger_task = "closed" => queue = <<>>

\* C33: a publish that fails or stalls does not stop or delay polling.  The
\* step of a publish task, whether the broker takes the message or the
\* publish raises, leaves the polling tasks, the rows and main() as they are;
\* whatever publish tasks are pending, a polling task whose GET was answered
\* emits its row, a sleeping polling task is due one interval after the start
\* of its last GET, and a polling task that is due can send its next GET.
C33_PublishNoBackPressure ==
    [][/\ publish_task => UNCHANGED <<poll, queue, csvfile, main, now>>
       /\ \A u \in URIs :
             /\ (PollDone(u) /\ poll[u].pending = "reply") => OneRowEmitted
             /\ poll[u].pc = "sleep" =>
                    now + poll[u].sleep_left = poll[u].start_time + Interval
             /\ (poll[u].pc \in {"delay", "sleep"} /\ poll[u].sleep_left = 0) =>
                    ENABLED PollWake(u)
      ]_vars

\* C33, its case: no publish returns, two publish tasks or more are pending,
\* and a polling task that has emitted two rows, each with its publish task,
\* is in its third GET.
C33_Witness ==
    /\ mqtt = "stalled"
    /\ Len(publishing) >= 2
    /\ \E u \in URIs :
          /\ poll[u].pc = "get"
          /\ poll[u].message_id = 3
          /\ Len(RowsOf(u)) = 2
          /\ poll[u].start_time = RowsOf(u)[2].sent_time + Interval

\* C34: after the first successful GET of a polling task its last-reply
\* cache equals the most recent successful reply of its URI, status,
\* timestamp, temperature and battery included, also after failed ticks: the
\* reply the task holds is the reply the device gave at the time of the last
\* row with error = 0.
C34_CacheIsLastSuccess ==
    \A u \in URIs :
        (poll[u].pc \in {"get", "sleep"} /\ poll[u].reply # NoReply) =>
            poll[u].reply[1] = DeviceReply(u, LastOk(RowsOf(u)).timestamp)

\* C35: a polling task has at most one GET outstanding; when a GET takes at
\* least the interval the next GET starts right after it with no sleep, and
\* missed intervals are never made up by extra requests.  A task sends a GET
\* only when it is asleep or its GET has just ended; at the end of a GET
\* that took the interval or more the next GET is sent in the same step, at
\* the end of a shorter one the task sleeps for the rest of the interval;
\* the GET after a sleep is sent one interval after the start of the one
\* before.  Two GETs of a task thus start an interval apart or more.
C35_OneGetNoCatchUp ==
    [][\A u \in URIs :
          LET p == poll[u]
              q == poll'[u]
          IN  /\ (q.pc = "get" /\ q # p /\ now' = now) =>
                     /\ p.pc \in {"new", "delay", "sleep", "get"}
                     /\ p.sleep_left = 0
                     /\ q.start_time = now
              /\ (PollDone(u) /\ q.pc \in Polling) =>
                     IF now - p.start_time >= Interval
                     THEN q.pc = "get"
                     ELSE /\ q.pc = "sleep"
                          /\ now + q.sleep_left = p.start_time + Interval
              /\ (PollWake(u) /\ p.pc = "sleep") =>
                     now = p.start_time + Interval
      ]_vars

\* C35, its case: with an interval shorter than the timeout, a GET that had
\* a last reply ran into the timeout and emitted its error row, and the next
\* row of the URI was sent at the end of that GET, later than one interval
\* after it.
C35_Witness ==
    /\ timeout > Interval
    /\ \E u \in URIs :
          \E j \in 1..(Len(RowsOf(u)) - 1) :
              /\ RowsOf(u)[j].error = 1
              /\ RowsOf(u)[j + 1].sent_time = RowsOf(u)[j].sent_time + timeout

\* ------------------------------------------------ claims, the coordinator
\* The offset of the entry POST number j was sent for.
OffsetOf(j) == schedule[posts[j].entry].time_ms

\* The POSTs sent for entry i of the schedule.
PostsOf(i) == {j \in 1..Len(posts) : posts[j].entry = i}

\* C24: a timeout or a transport error while sending one entry is swallowed:
\* the step in which the await of the response ends with either of them ends
\* that entry's task normally, leaves every other task as it was, takes back
\* no POST and leaves run() awaiting its tasks.
C24_SendErrorsSwallowed ==
    [][\A i \in 1..MaxEntries :
          (send_event_done(i)
               /\ run_tasks[i].exc \in {"TimeoutError", "NetworkError"}) =>
              /\ run_tasks'[i].pc = "done"
              /\ \A k \in DOMAIN run_tasks \ {i} : run_tasks'[k] = run_tasks[k]
              /\ posts' = posts
              /\ run_pc' = run_pc
      ]_vars

\* C24, its case: the POST of the first entry timed out, the POST of the
\* second met a transport error, a third entry was POSTed after both, and
\* run() has returned.
C24_Witness ==
    /\ run_pc = "returned"
    /\ Len(run_tasks) = 3
    /\ run_tasks[1].exc = "TimeoutError"
    /\ run_tasks[2].exc = "NetworkError"
    /\ run_tasks[3].exc = "none"
    /\ \E j \in PostsOf(3) : posts[j].at > posts[1].at

C26_RunTerminates ==
    (run_pc = "gather") ~>
        /\ run_pc = "returned"
        /\ \A i \in 1..Len(schedule) : Cardinality(PostsOf(i)) = 1
        /\ \A i \in DOMAIN run_tasks : run_tasks[i].pc = "done"
        /\ \E j \in 1..Len(posts) :
               loop_time <= posts[j].at + TIMEOUT_POST * 1000

\* An entry of a schedule file that is not a DeviceEvent: a key is missing,
\* the event is no EventConfig, or the device is no URI.
InvalidEntry(e) == from_dict_exits(e) \/ MalformedUrl(e.device)

\* C27: if any entry of the schedule file is invalid, the coordinator sends
\* no POST of any entry, and it does not return normally.
C27_InvalidEntryAborts ==
    (\E i \in 1..Len(schedule_file) : InvalidEntry(schedule_file[i])) =>
        /\ posts = <<>>
        /\ run_pc # "returned"

====
